---------------------------- MODULE Spec2Model ----------------------------
(***************************************************************************)
(* A model of the reliable transport of src/reliable_transport.py (Sender, *)
(* Receiver) driven by the simulator of src/grade.py (SimulatingNetwork,   *)
(* SimpleApplication, run_simulation).                                     *)
(*                                                                         *)
(* Packets are the byte strings struct.pack produces: a sequence of bytes  *)
(* 0..255.  A 32-bit field is kept as its four little-endian bytes; it is   *)
(* turned into a number only where the code uses it as a number.           *)
(***************************************************************************)
EXTENDS Integers, Sequences, FiniteSets, TLC

(***************************************************************************)
(* zlib.crc32: the reflected CRC-32 (polynomial 0xEDB88320, initial value  *)
(* and final xor 0xFFFFFFFF), computed bit by bit on a register of four    *)
(* little-endian bytes.  An intermediate register is bound as the element  *)
(* of a one-element set, so that it is computed once where it is used      *)
(* several times.                                                          *)
(***************************************************************************)
RECURSIVE BitXor(_, _, _)
BitXor(a, b, n) ==
    IF n = 0 THEN 0
    ELSE ((a + b) % 2) + 2 * BitXor(a \div 2, b \div 2, n - 1)

XorWord(w, v) ==
    << BitXor(w[1], v[1], 8), BitXor(w[2], v[2], 8),
       BitXor(w[3], v[3], 8), BitXor(w[4], v[4], 8) >>

ShiftRight1(w) ==
    << (w[1] \div 2) + 128 * (w[2] % 2), (w[2] \div 2) + 128 * (w[3] % 2),
       (w[3] \div 2) + 128 * (w[4] % 2), w[4] \div 2 >>

CrcPoly == << 32, 131, 184, 237 >>

CrcBit(w) ==
    IF w[1] % 2 = 1 THEN XorWord(ShiftRight1(w), CrcPoly) ELSE ShiftRight1(w)

RECURSIVE CrcBits(_, _)
CrcBits(w, n) ==
    IF n = 0 THEN w
    ELSE CHOOSE r \in { CrcBits(v, n - 1) : v \in { CrcBit(w) } } : TRUE

CrcByte(w, byte) ==
    CHOOSE r \in { CrcBits(v, 8) :
                     v \in { << BitXor(w[1], byte, 8), w[2], w[3], w[4] >> } } : TRUE

RECURSIVE CrcFold(_, _)
CrcFold(w, data) ==
    IF data = << >> THEN w
    ELSE CHOOSE r \in { CrcFold(v, Tail(data)) :
                          v \in { CrcByte(w, Head(data)) } } : TRUE

crc32(data) ==
    CHOOSE r \in { XorWord(w, << 255, 255, 255, 255 >>) :
                     w \in { CrcFold(<< 255, 255, 255, 255 >>, data) } } : TRUE


(***************************************************************************)
(* Bounds of the model.  The source draws the sequence ids from            *)
(* set(range(2000)); the model keeps the same pool with PoolSize ids.      *)
(* MaxFlips bounds how many packets the link corrupts in one run.          *)
(***************************************************************************)
PoolSize == 3

MaxFlips == 1

Min(S) == CHOOSE x \in S : \A y \in S : x <= y

Pow2(n) == 2 ^ n

(***************************************************************************)
(* struct.pack / struct.unpack of the two wire formats.                    *)
(***************************************************************************)
HeaderSize == 4 + 4 + 4

LE32(n) ==
    << n % 256, (n \div 256) % 256, (n \div 65536) % 256, (n \div 16777216) % 256 >>

\* The number four little-endian bytes stand for.  TLC's integers are 32-bit
\* signed, so the model never builds a field whose top bit is set (FlipOk).
U32(w) == w[1] + 256 * w[2] + 65536 * w[3] + 16777216 * w[4]

\* struct.pack('<{}sIII'.format(len(fragment)), fragment, number, total_length, crc)
PackFragment(fragment, number, total_length, crc) ==
    fragment \o LE32(number) \o LE32(total_length) \o crc

\* struct.unpack('<{}sIII'.format(len(msg)-4-4-4), msg): defined for Len(msg) >= 12
\* only; a shorter msg gives a negative count and struct.error (UnpackFails).
UnpackFails(msg) == Len(msg) - HeaderSize < 0

UnpackFragment(msg) ==
    LET n == Len(msg) - HeaderSize
    IN  [ data         |-> SubSeq(msg, 1, n),
          number       |-> U32(SubSeq(msg, n + 1, n + 4)),
          total_length |-> U32(SubSeq(msg, n + 5, n + 8)),
          crc          |-> SubSeq(msg, n + 9, n + 12) ]

\* struct.pack('I', number) and struct.unpack('I', msg): four bytes, in the
\* byte order of the machine (little-endian here).
PackAck(number) == LE32(number)

UnpackAckFails(msg) == Len(msg) # 4

UnpackAck(msg) == U32(msg)

(***************************************************************************)
(* Python containers.  Sender.cache is a dict whose iteration order (the   *)
(* order of insertion) decides the order of retransmissions: a sequence of *)
(* entries [number, message, age].  Receiver.cache is only looked up by    *)
(* key: a function.  Sender.ids is a set of small ints, with finger the    *)
(* number of ids taken from it for the first time (CPython's set.pop scans *)
(* the hash table from its search finger, and int k starts in slot k) and  *)
(* wrapped saying that the last pop gave an id that had been put back.     *)
(***************************************************************************)
Keys(cache) == { cache[k].number : k \in 1..Len(cache) }

DictGet(cache, number) ==
    cache[CHOOSE k \in 1..Len(cache) : cache[k].number = number]

DictSet(cache, number, message, age) ==
    IF number \in Keys(cache)
    THEN [ k \in 1..Len(cache) |->
             IF cache[k].number = number
             THEN [number |-> number, message |-> message, age |-> age]
             ELSE cache[k] ]
    ELSE Append(cache, [number |-> number, message |-> message, age |-> age])

DictPop(cache, number) == SelectSeq(cache, LAMBDA e : e.number # number)

\* A pop that reads the id and leaves it in the set.
SetPop_KeepsId(ids, finger, wrapped) ==
    LET fresh == { k \in ids : k >= finger }
        back == { k \in ids : k < finger }
        found == IF fresh = {} THEN back
                 ELSE IF wrapped THEN back \cup { Min(fresh) }
                 ELSE { Min(fresh) }
    IN  { [ number |-> n, ids |-> ids,
            finger |-> IF n >= finger THEN n + 1 ELSE finger,
            wrapped |-> n < finger ] : n \in found }

\* self.ids.pop(): the element at the first filled slot of the set's table,
\* searched from the slot after the one the last pop emptied, wrapping around.
\* The ids that were never taken (fresh: finger and above) sit in their own
\* slots, in ascending order; an id that ids.add put back (back: below finger)
\* sits in a slot that was emptied before or in one behind all fresh ids, which
\* one depends on the table's layout.  So after a pop of a fresh id the next
\* pop gives the smallest fresh id, and any id that was put back when no fresh
\* id is left; after a pop of an id that was put back (wrapped) it may give any
\* id that was put back or the smallest fresh one.  The result is the set of
\* outcomes [number, ids, finger, wrapped].
SetPop(ids, finger, wrapped) ==
    LET fresh == { k \in ids : k >= finger }
        back == { k \in ids : k < finger }
        found == IF fresh = {} THEN back
                 ELSE IF wrapped THEN back \cup { Min(fresh) }
                 ELSE { Min(fresh) }
    IN  { [ number |-> n, ids |-> ids \ {n},
            finger |-> IF n >= finger THEN n + 1 ELSE finger,
            wrapped |-> n < finger ] : n \in found }

(***************************************************************************)
(* Sender.  A sender is [ids, finger, wrapped, cache, rtt]; a handler is a *)
(* function of the sender and its argument that gives the new sender, the  *)
(* packets it handed to network.send_packet (in order), and the exception  *)
(* it raised ("" for none).                                                *)
(***************************************************************************)
RetransmitAge == 12

InitialRtt == 10

SenderInit ==
    [ ids |-> 0..(PoolSize - 1), finger |-> 0, wrapped |-> FALSE, cache |-> << >>,
      rtt |-> InitialRtt ]

\* int(self.alpha * self.rtt + (1-self.alpha)*sample) with alpha = 0.05, in
\* IEEE-754 doubles: the floor of (5 rtt + 95 sample) / 100, except that where
\* the exact value is a whole number the two rounded products may add up to
\* just below it.  RttRoundsDown lists those pairs for rtt, sample in 0..40.
RttRoundsDown ==
    { <<3, 3>>, <<3, 23>>, <<4, 24>>, <<6, 6>>, <<7, 7>>, <<8, 28>>, <<9, 9>>,
      <<9, 29>>, <<12, 12>>, <<13, 33>>, <<14, 14>>, <<16, 36>>, <<18, 18>>,
      <<23, 23>>, <<24, 24>>, <<26, 6>>, <<28, 28>>, <<29, 29>>, <<32, 12>>,
      <<36, 36>>, <<38, 18>> }

RttUpdate(rtt, sample) ==
    ((5 * rtt + 95 * sample) \div 100)
        - (IF <<rtt, sample>> \in RttRoundsDown THEN 1 ELSE 0)

\* if number[0] in self.cache
AckIsOutstanding(number, cache) == number \in Keys(cache)

\* An on_msg without the test that the id is outstanding: an unknown id is
\* released and sampled as age 0.
SenderOnMsg_Unguarded(sender, msg) ==
    LET number == UnpackAck(msg)
        sample == IF number \in Keys(sender.cache)
                  THEN DictGet(sender.cache, number).age ELSE 0
    IN  [ sender |-> [ sender EXCEPT
                         !.rtt = RttUpdate(sender.rtt, sample),
                         !.cache = DictPop(sender.cache, number),
                         !.ids = sender.ids \cup {number} ],
          sent |-> << >>, exc |-> "" ]

SenderOnMsg(sender, msg) ==
    IF UnpackAckFails(msg)
    THEN [ sender |-> sender, sent |-> << >>, exc |-> "struct.error" ]
    ELSE LET number == UnpackAck(msg)
         IN  IF AckIsOutstanding(number, sender.cache)
             THEN LET sample == DictGet(sender.cache, number).age
                  IN  [ sender |-> [ sender EXCEPT
                                       !.rtt = RttUpdate(sender.rtt, sample),
                                       !.cache = DictPop(sender.cache, number),
                                       !.ids = sender.ids \cup {number} ],
                        sent |-> << >>, exc |-> "" ]
             ELSE [ sender |-> sender, sent |-> << >>, exc |-> "" ]

\* self.cache[i][1] += 1 for every entry, in the dict's order
AgedCache(cache) ==
    [ k \in 1..Len(cache) |-> [ cache[k] EXCEPT !.age = cache[k].age + 1 ] ]

\* A timer that never resends.
IsDue_Never(entry) == FALSE

\* A timer that resends every outstanding record on every tick.
IsDue_Always(entry) == TRUE

\* if self.cache[i][1] > 12
IsDue(entry) == entry.age > RetransmitAge

\* the messages on_timer_tick sends again, in the dict's order
Resent(cache) ==
    LET due == SelectSeq(cache, IsDue)
    IN  [ k \in 1..Len(due) |-> due[k].message ]

SenderOnTimerTick(sender) ==
    LET aged == AgedCache(sender.cache)
    IN  [ sender |-> [ sender EXCEPT !.cache = aged ],
          sent |-> Resent(aged), exc |-> "" ]

\* total_length = int(data_length/eff_mtu)+1
TotalLength(data_length, eff_mtu) == (data_length \div eff_mtu) + 1

\* data[(i-1)*eff_mtu:(i*eff_mtu)]
Slice(data, from, to) ==
    SubSeq(data, from + 1, IF to < Len(data) THEN to ELSE Len(data))

\* The while loop of Sender.write, pass by pass; self.ids.pop() raises KeyError
\* on an empty set, which leaves write with the loop's earlier passes done.
\* The result is the set of outcomes, one for each way the pops can go.
RECURSIVE WriteLoop(_, _, _, _, _, _)
WriteLoop(st, data, data_length, i, eff_mtu, total_length) ==
    IF ~(data_length > 0) THEN { st }
    ELSE IF st.sender.ids = {} THEN { [ st EXCEPT !.exc = "KeyError" ] }
    ELSE LET fragment == Slice(data, i * eff_mtu, (i + 1) * eff_mtu)
             crc == crc32(fragment)
         IN  UNION { UNION {
               WriteLoop(next, data, data_length - eff_mtu, i + 1, eff_mtu, total_length) :
                 next \in { LET message == PackFragment(fragment, pop.number,
                                                        total_length, crc)
                            IN  [ sender |-> [ st.sender EXCEPT
                                                 !.ids = pop.ids,
                                                 !.finger = pop.finger,
                                                 !.wrapped = pop.wrapped,
                                                 !.cache = DictSet(st.sender.cache,
                                                                   pop.number, message, 0) ],
                                  sent |-> Append(st.sent, message),
                                  exc |-> "" ] } } :
               pop \in SetPop(st.sender.ids, st.sender.finger, st.sender.wrapped) }

\* ret is what write returns ("True": its only return statement), or "" when
\* it raised.  The result is the set of outcomes of the call.
SenderWrite(sender, mtu, data) ==
    LET eff_mtu == mtu - 4 - 4 - 4
    IN  { [ sender |-> loop.sender, sent |-> loop.sent, exc |-> loop.exc,
            ret |-> IF loop.exc = "" THEN "True" ELSE "" ] :
            loop \in WriteLoop([ sender |-> sender, sent |-> << >>, exc |-> "" ],
                               data, Len(data), 0, eff_mtu,
                               TotalLength(Len(data), eff_mtu)) }

(***************************************************************************)
(* Receiver.  A receiver is [cache, current, length]; a handler gives the  *)
(* new receiver, the packets handed to network.send_packet, the payloads   *)
(* handed to app.on_data (each with the id it came under and the cursor at *)
(* that moment), and the exception raised.                                 *)
(***************************************************************************)
ReceiverInit == [ cache |-> << >>, current |-> 0, length |-> 0 ]

\* A receiver that never sees a mismatch.
CrcMismatch_Never(crc, computed_crc) == FALSE

\* if crc != computed_crc
CrcMismatch(crc, computed_crc) == crc # computed_crc

\* if total_length > 1: buffer, else deliver
IsBuffered(total_length) == total_length > 1

OnData(data, number, current) ==
    [ data |-> data, number |-> number, current |-> current ]

\* An on_msg that acknowledges a fragment only if its id is not behind the
\* cursor: a copy of a fragment that was already passed on gets no answer.
ReceiverOnMsg_AckOnlyNew(receiver, msg) ==
    IF UnpackFails(msg)
    THEN [ receiver |-> receiver, sent |-> << >>, on_data |-> << >>,
           exc |-> "struct.error" ]
    ELSE LET f == UnpackFragment(msg)
             computed_crc == crc32(f.data)
             r1 == [ receiver EXCEPT !.length = f.total_length ]
             control == IF f.number < receiver.current
                        THEN << >> ELSE << PackAck(f.number) >>
         IN  IF CrcMismatch(f.crc, computed_crc)
             THEN [ receiver |-> r1, sent |-> << >>, on_data |-> << >>, exc |-> "" ]
             ELSE IF IsBuffered(f.total_length)
             THEN [ receiver |-> [ r1 EXCEPT !.cache =
                                     [ k \in DOMAIN r1.cache \cup {f.number} |->
                                         IF k = f.number THEN f.data ELSE r1.cache[k] ] ],
                    sent |-> control, on_data |-> << >>, exc |-> "" ]
             ELSE [ receiver |-> r1, sent |-> control,
                    on_data |-> << OnData(f.data, f.number, r1.current) >>, exc |-> "" ]

ReceiverOnMsg(receiver, msg) ==
    IF UnpackFails(msg)
    THEN [ receiver |-> receiver, sent |-> << >>, on_data |-> << >>,
           exc |-> "struct.error" ]
    ELSE LET f == UnpackFragment(msg)
             computed_crc == crc32(f.data)
             r1 == [ receiver EXCEPT !.length = f.total_length ]
         IN  IF CrcMismatch(f.crc, computed_crc)
             THEN [ receiver |-> r1, sent |-> << >>, on_data |-> << >>, exc |-> "" ]
             ELSE IF IsBuffered(f.total_length)
             THEN [ receiver |-> [ r1 EXCEPT !.cache =
                                     [ k \in DOMAIN r1.cache \cup {f.number} |->
                                         IF k = f.number THEN f.data ELSE r1.cache[k] ] ],
                    sent |-> << PackAck(f.number) >>, on_data |-> << >>, exc |-> "" ]
             ELSE [ receiver |-> r1, sent |-> << PackAck(f.number) >>,
                    on_data |-> << OnData(f.data, f.number, r1.current) >>, exc |-> "" ]

\* on_msg reaches its else branch: the packet unpacks and crc == computed_crc
Accepts(msg) ==
    /\ ~UnpackFails(msg)
    /\ ~CrcMismatch(UnpackFragment(msg).crc, crc32(UnpackFragment(msg).data))

ReceiverOnTimerTick(receiver) ==
    IF receiver.current \in DOMAIN receiver.cache
    THEN [ receiver |-> [ receiver EXCEPT
                            !.cache = [ k \in DOMAIN receiver.cache \ {receiver.current}
                                          |-> receiver.cache[k] ],
                            !.current = receiver.current + 1 ],
           sent |-> << >>,
           on_data |-> << OnData(receiver.cache[receiver.current],
                                 receiver.current, receiver.current) >>,
           exc |-> "" ]
    ELSE [ receiver |-> receiver, sent |-> << >>, on_data |-> << >>, exc |-> "" ]

(***************************************************************************)
(* The test cases: a SimulatingNetwork and a SimpleApplication, as         *)
(* test_protocol builds them, scaled down.  packet_loss and corruption say *)
(* whether the probability is given (not None); what the random generator  *)
(* draws is then any value.                                                *)
(***************************************************************************)
Network(latency, mtu, packet_loss, packet_reorder, corruption) ==
    [ latency |-> latency, mtu |-> mtu, packet_loss |-> packet_loss,
      packet_reorder |-> packet_reorder, corruption |-> corruption ]

ReliableNetwork == Network(0, 14, FALSE, 0, FALSE)

LossyNetwork == Network(2, 14, TRUE, 0, FALSE)

ReorderingNetwork == Network(1, 14, FALSE, 1, FALSE)

CorruptingNetwork == Network(0, 14, FALSE, 0, TRUE)

Application(data, timeout) == [ data |-> data, timeout |-> timeout ]

OneByte == << <<102>> >>

TwoWrites == << <<98>>, <<97>> >>

BiggerThanMtu == << <<97, 98, 99>> >>

ExactlyMtu == << <<97, 98>> >>

SmallThenBig == << <<97>>, <<98, 99, 100>> >>

FourFragments == << <<97, 98, 99, 100, 101, 102, 103>> >>

EmptyThenByte == << << >>, <<97>> >>

ManyWrites == << <<97>>, <<98>>, <<99>>, <<100>> >>

TestCases ==
    ( { ReliableNetwork, ReorderingNetwork }
        \X { Application(d, 10) :
               d \in { OneByte, TwoWrites, BiggerThanMtu, ExactlyMtu,
                       SmallThenBig, FourFragments, EmptyThenByte, ManyWrites } } )
    \cup ( { LossyNetwork }
        \X { Application(d, 16) : d \in { OneByte, BiggerThanMtu } } )
    \cup ( { CorruptingNetwork }
        \X { Application(d, 14) : d \in { BiggerThanMtu } } )

RECURSIVE Join(_)
Join(data) == IF data = << >> THEN << >> ELSE Head(data) \o Join(Tail(data))

(***************************************************************************)
(* SimulatingNetwork.Link.  A link is [queue, time]; its latency, mtu,     *)
(* packet_loss, packet_reorder and corruption are those of the test case   *)
(* (both links get the same).  A queue entry is <<time, data>>.            *)
(***************************************************************************)
LinkInit == [ queue |-> << >>, time |-> 0 ]

RECURSIVE BytesLess(_, _)
BytesLess(a, b) ==
    IF a = << >> THEN b # << >>
    ELSE IF b = << >> THEN FALSE
    ELSE IF Head(a) # Head(b) THEN Head(a) < Head(b)
    ELSE BytesLess(Tail(a), Tail(b))

\* the order of Python tuples (time, data)
EntryLess(x, y) == x[1] < y[1] \/ (x[1] = y[1] /\ BytesLess(x[2], y[2]))

\* self.queue.append(entry); self.queue.sort(), on a queue that is sorted
SortedInsert(queue, entry) ==
    LET before == SelectSeq(queue, LAMBDA e : ~EntryLess(entry, e))
        after == SelectSeq(queue, LAMBDA e : EntryLess(entry, e))
    IN  before \o << entry >> \o after

\* data[position] = data[position] ^ (1 << bit)
Flip(data, position, bit) ==
    LET byte == data[position + 1]
    IN  [ data EXCEPT ![position + 1] =
            IF (byte \div Pow2(bit)) % 2 = 1 THEN byte - Pow2(bit) ELSE byte + Pow2(bit) ]

\* What the random generator of a link may draw for one packet: lost or not,
\* corrupted or not and then the bit to flip (position, bit), and the delay added.
LinkChoices(n) ==
    ( IF n.packet_loss
      THEN { [ lost |-> TRUE, corrupt |-> FALSE, position |-> 0, bit |-> 0, jitter |-> 0 ] }
      ELSE { } )
    \cup { [ lost |-> FALSE, corrupt |-> FALSE, position |-> 0, bit |-> 0, jitter |-> j ] :
             j \in 0..n.packet_reorder }
    \cup ( IF n.corruption
           THEN { [ lost |-> FALSE, corrupt |-> TRUE, position |-> p, bit |-> b, jitter |-> j ] :
                    p \in 0..(n.mtu - 1), b \in 0..7, j \in 0..n.packet_reorder }
           ELSE { } )

\* position = self.random.randint(0, max_position - 1) lies in the packet.  The
\* flips that set the top bit of a 32-bit number field are left out (U32).
FlipOk(data, choice) ==
    \/ ~choice.corrupt
    \/ /\ choice.position < Len(data)
       /\ ~( /\ choice.bit = 7
             /\ choice.position \in ( IF Len(data) = 4 THEN { 3 }
                                      ELSE { Len(data) - 9, Len(data) - 5 } ) )

SendPacket(link, n, data, choice) ==
    IF Len(data) > n.mtu THEN link
    ELSE IF choice.lost THEN link
    ELSE LET corrupted == IF choice.corrupt
                          THEN Flip(data, choice.position, choice.bit) ELSE data
         IN  [ link EXCEPT !.queue =
                 SortedInsert(link.queue,
                     << link.time + n.latency + choice.jitter, corrupted >>) ]

RECURSIVE SendPackets(_, _, _, _)
SendPackets(link, n, packets, choices) ==
    IF packets = << >> THEN link
    ELSE SendPackets(SendPacket(link, n, Head(packets), Head(choices)),
                     n, Tail(packets), Tail(choices))

NumFlips(choices) == Cardinality({ k \in 1..Len(choices) : choices[k].corrupt })

\* while self.queue: if self.queue[0][0] > self.time: break
HeadIsDue(link) == link.queue # << >> /\ ~(link.queue[1][1] > link.time)

(***************************************************************************)
(* The state: the objects run_simulation builds for one test case, the     *)
(* place run_simulation has reached (pc), how the run ended (outcome), and *)
(* four records of what happened: last, the handler call of the latest     *)
(* step; flips, the number of packets corrupted so far; created, the       *)
(* fragments Sender.write has packed, in order; and accepted, the packets  *)
(* Receiver.on_msg has taken (its else branch: the checksum matched).      *)
(***************************************************************************)
VARIABLES net, timeout, sender, receiver, app, sender_link, receiver_link,
          pc, outcome, last, flips, created, accepted

vars == << net, timeout, sender, receiver, app, sender_link, receiver_link,
           pc, outcome, last, flips, created, accepted >>

\* A handler call: its name and argument, the packets it handed to
\* network.send_packet, the payloads it handed to app.on_data, what it returned
\* ("" when it raised), the exception it raised ("" for none), and whether it
\* changed the object it belongs to.
Call(op, arg, sent, on_data, ret, exc, changed) ==
    [ op |-> op, arg |-> arg, sent |-> sent, on_data |-> on_data, ret |-> ret,
      exc |-> exc, changed |-> changed ]

NoCall(op) == Call(op, << >>, << >>, << >>, "None", "", FALSE)

Returned(exc) == IF exc = "" THEN "None" ELSE ""

AppInit(data) ==
    [ received |-> << >>, time |-> 0, test_data |-> Join(data), queued_data |-> data ]

Init ==
    /\ \E case \in TestCases :
         /\ net = case[1]
         /\ timeout = case[2].timeout
         /\ app = AppInit(case[2].data)
    /\ sender = SenderInit
    /\ receiver = ReceiverInit
    /\ sender_link = LinkInit
    /\ receiver_link = LinkInit
    /\ pc = "app"
    /\ outcome = "running"
    /\ last = NoCall("init")
    /\ flips = 0
    /\ created = << >>
    /\ accepted = { }

\* network.send_packet for each of packets, in order, on a link
Transmit(link, packets, newlink) ==
    \E choices \in [ 1..Len(packets) -> LinkChoices(net) ] :
        /\ \A k \in 1..Len(packets) : FlipOk(packets[k], choices[k])
        /\ flips + NumFlips(choices) <= MaxFlips
        /\ newlink = SendPackets(link, net, packets, choices)
        /\ flips' = flips + NumFlips(choices)

\* self.received += data, for each payload handed to on_data
RECURSIVE Receive(_, _)
Receive(received, on_data) ==
    IF on_data = << >> THEN received
    ELSE Receive(received \o Head(on_data).data, Tail(on_data))

\* SimpleApplication.on_timer_tick: self.time += 1, then the while loop
AppOnTimerTick ==
    /\ pc = "app"
    /\ app' = [ app EXCEPT !.time = app.time + 1 ]
    /\ pc' = IF app.queued_data # << >> THEN "app_while" ELSE "sender"
    /\ last' = NoCall("SimpleApplication.on_timer_tick")
    /\ UNCHANGED << net, timeout, sender, receiver, sender_link, receiver_link,
                    outcome, flips, created, accepted >>

\* one pass of the while loop: sender.write(self.queued_data[0])
AppOffer ==
    /\ pc = "app_while"
    /\ \E data \in { Head(app.queued_data) } :
       \E out \in SenderWrite(sender, net.mtu, data) :
           /\ sender' = out.sender
           /\ Transmit(sender_link, out.sent, sender_link')
           /\ created' = created \o out.sent
           /\ last' = Call("Sender.write", data, out.sent, << >>, out.ret, out.exc,
                           out.sender # sender)
           /\ IF out.exc # ""
              THEN /\ outcome' = out.exc
                   /\ pc' = "done"
                   /\ app' = app
              ELSE IF out.ret = "True"
              THEN /\ app' = [ app EXCEPT !.queued_data = Tail(app.queued_data) ]
                   /\ pc' = IF Tail(app.queued_data) # << >> THEN "app_while" ELSE "sender"
                   /\ outcome' = outcome
              ELSE /\ app' = app
                   /\ pc' = "sender"
                   /\ outcome' = outcome
    /\ UNCHANGED << net, timeout, receiver, receiver_link, accepted >>

\* run_simulation calls sender.on_timer_tick()
SenderTimerTick ==
    /\ pc = "sender"
    /\ \E out \in { SenderOnTimerTick(sender) } :
           /\ sender' = out.sender
           /\ Transmit(sender_link, out.sent, sender_link')
           /\ last' = Call("Sender.on_timer_tick", << >>, out.sent, << >>,
                           Returned(out.exc), out.exc, out.sender # sender)
    /\ pc' = "receiver"
    /\ UNCHANGED << net, timeout, receiver, app, receiver_link, outcome,
                    created, accepted >>

\* run_simulation calls receiver.on_timer_tick()
ReceiverTimerTick ==
    /\ pc = "receiver"
    /\ \E out \in { ReceiverOnTimerTick(receiver) } :
           /\ receiver' = out.receiver
           /\ app' = [ app EXCEPT !.received = Receive(app.received, out.on_data) ]
           /\ last' = Call("Receiver.on_timer_tick", << >>, out.sent, out.on_data,
                           Returned(out.exc), out.exc, out.receiver # receiver)
    /\ pc' = "sender_link"
    /\ UNCHANGED << net, timeout, sender, sender_link, receiver_link, outcome, flips,
                    created, accepted >>

\* network.on_timer_tick: self.sender_link.on_timer_tick() begins
SenderLinkTimerTick ==
    /\ pc = "sender_link"
    /\ sender_link' = [ sender_link EXCEPT !.time = sender_link.time + 1 ]
    /\ pc' = "sender_link_while"
    /\ last' = NoCall("Link.on_timer_tick")
    /\ UNCHANGED << net, timeout, sender, receiver, app, receiver_link, outcome, flips,
                    created, accepted >>

\* one pass of the link's while loop: self.receiver.on_msg(packet)
SenderLinkDeliver ==
    /\ pc = "sender_link_while"
    /\ HeadIsDue(sender_link)
    /\ \E packet \in { sender_link.queue[1][2] } :
       \E out \in { ReceiverOnMsg(receiver, packet) } :
           /\ sender_link' = [ sender_link EXCEPT !.queue = Tail(sender_link.queue) ]
           /\ receiver' = out.receiver
           /\ app' = [ app EXCEPT !.received = Receive(app.received, out.on_data) ]
           /\ Transmit(receiver_link, out.sent, receiver_link')
           /\ accepted' = IF Accepts(packet) THEN accepted \cup { packet } ELSE accepted
           /\ last' = Call("Receiver.on_msg", packet, out.sent, out.on_data,
                           Returned(out.exc), out.exc, out.receiver # receiver)
           /\ IF out.exc # ""
              THEN outcome' = out.exc /\ pc' = "done"
              ELSE UNCHANGED << pc, outcome >>
    /\ UNCHANGED << net, timeout, sender, created >>

\* the sender link's loop ends; self.receiver_link.on_timer_tick() begins
ReceiverLinkTimerTick ==
    /\ pc = "sender_link_while"
    /\ ~HeadIsDue(sender_link)
    /\ receiver_link' = [ receiver_link EXCEPT !.time = receiver_link.time + 1 ]
    /\ pc' = "receiver_link_while"
    /\ last' = NoCall("Link.on_timer_tick")
    /\ UNCHANGED << net, timeout, sender, receiver, app, sender_link, outcome, flips,
                    created, accepted >>

\* one pass of the link's while loop: the sender's on_msg(packet)
ReceiverLinkDeliver ==
    /\ pc = "receiver_link_while"
    /\ HeadIsDue(receiver_link)
    /\ \E packet \in { receiver_link.queue[1][2] } :
       \E out \in { SenderOnMsg(sender, packet) } :
           /\ receiver_link' = [ receiver_link EXCEPT !.queue = Tail(receiver_link.queue) ]
           /\ sender' = out.sender
           /\ Transmit(sender_link, out.sent, sender_link')
           /\ last' = Call("Sender.on_msg", packet, out.sent, << >>,
                           Returned(out.exc), out.exc, out.sender # sender)
           /\ IF out.exc # ""
              THEN outcome' = out.exc /\ pc' = "done"
              ELSE UNCHANGED << pc, outcome >>
    /\ UNCHANGED << net, timeout, receiver, app, created, accepted >>

IsPrefix(p, q) == Slice(q, 0, Len(p)) = p

\* SimpleApplication.check
AppCheck(a, tmo) ==
    IF a.time > tmo THEN "Timeout"
    ELSE IF Slice(a.test_data, 0, Len(a.received)) # a.received THEN "Data corruption"
    ELSE IF Len(a.received) = Len(a.test_data) THEN "OK"
    ELSE "running"

\* the receiver link's loop ends; run_simulation calls app.check()
Check ==
    /\ pc = "receiver_link_while"
    /\ ~HeadIsDue(receiver_link)
    /\ outcome' = AppCheck(app, timeout)
    /\ pc' = IF outcome' = "running" THEN "app" ELSE "done"
    /\ last' = NoCall("SimpleApplication.check")
    /\ UNCHANGED << net, timeout, sender, receiver, app, sender_link, receiver_link, flips,
                    created, accepted >>

Next ==
    \/ AppOnTimerTick
    \/ AppOffer
    \/ SenderTimerTick
    \/ ReceiverTimerTick
    \/ SenderLinkTimerTick
    \/ SenderLinkDeliver
    \/ ReceiverLinkTimerTick
    \/ ReceiverLinkDeliver
    \/ Check

Spec == Init /\ [][Next]_vars

\* run_simulation's loop makes its next call as long as the run has not ended.
SpecLive == Spec /\ WF_vars(Next)

(***************************************************************************)
(* A link that hands the receiver a truncated packet: the first bytes of a *)
(* fragment, fewer than the header needs.                                  *)
(***************************************************************************)
ShortPackets ==
    { SubSeq(PackFragment(<< >>, 0, 1, crc32(<< >>)), 1, n) : n \in { 0, 4, HeaderSize - 1 } }

SenderLinkDeliverShort ==
    /\ pc = "sender_link_while"
    /\ \E packet \in ShortPackets :
         \E out \in { ReceiverOnMsg(receiver, packet) } :
             /\ receiver' = out.receiver
             /\ app' = [ app EXCEPT !.received = Receive(app.received, out.on_data) ]
             /\ Transmit(receiver_link, out.sent, receiver_link')
             /\ accepted' = IF Accepts(packet) THEN accepted \cup { packet } ELSE accepted
             /\ last' = Call("Receiver.on_msg", packet, out.sent, out.on_data,
                             Returned(out.exc), out.exc, out.receiver # receiver)
             /\ IF out.exc # ""
                THEN outcome' = out.exc /\ pc' = "done"
                ELSE UNCHANGED << pc, outcome >>
    /\ UNCHANGED << net, timeout, sender, sender_link, created >>

NextMalformed == Next \/ SenderLinkDeliverShort

SpecMalformed == Init /\ [][NextMalformed]_vars

(***************************************************************************)
(* An application that stops offering for this tick by its own choice (the *)
(* break of SimpleApplication.on_timer_tick) and writes the rest of its    *)
(* data on a later tick, over a link whose round trip is longer than the   *)
(* sender waits before it sends again (test_protocol's latency=20).        *)
(***************************************************************************)
SlowNetwork == Network(7, 14, FALSE, 0, FALSE)

ThreeThenOne == << <<97, 98, 99, 100, 101>>, <<102>> >>

PacedCases ==
    { << SlowNetwork, Application(ThreeThenOne, 26) >>,
      << ReliableNetwork, Application(TwoWrites, 10) >> }

InitPaced ==
    /\ \E case \in PacedCases :
         /\ net = case[1]
         /\ timeout = case[2].timeout
         /\ app = AppInit(case[2].data)
    /\ sender = SenderInit
    /\ receiver = ReceiverInit
    /\ sender_link = LinkInit
    /\ receiver_link = LinkInit
    /\ pc = "app"
    /\ outcome = "running"
    /\ last = NoCall("init")
    /\ flips = 0
    /\ created = << >>
    /\ accepted = { }

AppBreak ==
    /\ pc = "app_while"
    /\ pc' = "sender"
    /\ last' = NoCall("SimpleApplication.on_timer_tick")
    /\ UNCHANGED << net, timeout, sender, receiver, app, sender_link, receiver_link,
                    outcome, flips, created, accepted >>

NextPaced == Next \/ AppBreak

SpecPaced == InitPaced /\ [][NextPaced]_vars

(***************************************************************************)
(* The properties.                                                         *)
(***************************************************************************)
\* The data of the writes the sender has accepted so far, concatenated.
Written == Slice(app.test_data, 0, Len(app.test_data) - Len(Join(app.queued_data)))

\* The number of fragments a write of data needs: ceil(len(data) / (mtu - 12)).
FragmentsNeeded(data) == (Len(data) + (net.mtu - HeaderSize) - 1) \div (net.mtu - HeaderSize)

CrcOk(msg) == crc32(UnpackFragment(msg).data) = UnpackFragment(msg).crc

\* C1 (integrity, safety): over a link that loses, delays, reorders and
\* duplicates packets but does not corrupt them, the bytes handed to
\* Application.on_data are at every moment a prefix of the written data.
C1_IntegrityPrefix == ~net.corruption => IsPrefix(app.received, Written)

\* C2 (integrity, liveness): every accepted write is eventually delivered in
\* full.  Received bytes are only ever appended, and once nothing is queued,
\* outstanding, in flight or ready in the reorder buffer, no handler changes
\* them again: the claim needs the received bytes to equal the written data then.
Quiescent ==
    /\ app.queued_data = << >>
    /\ sender.cache = << >>
    /\ sender_link.queue = << >>
    /\ receiver_link.queue = << >>
    /\ receiver.current \notin DOMAIN receiver.cache

C2_DeliveredInFull ==
    (~net.corruption /\ Quiescent) => app.received = app.test_data

\* C3 (in-order release): whenever the receiver hands a payload to
\* Application.on_data, the sequence id of its fragment equals the receiver's
\* cursor (Receiver.current) at that moment.
C3_InOrderRelease ==
    \A k \in 1..Len(last.on_data) : last.on_data[k].number = last.on_data[k].current

\* C4 (backpressure): a Sender.write called while fewer ids are free than the
\* write needs fragments returns false, raises nothing and changes nothing: no
\* packet to the link, no id out of the pool, no outstanding record; and a write
\* that returns true gave every fragment an id.
C4_Backpressure ==
    [][ last'.op = "Sender.write" =>
          /\ Cardinality(sender.ids) < FragmentsNeeded(last'.arg) =>
               /\ last'.exc = ""
               /\ last'.ret = "False"
               /\ last'.sent = << >>
               /\ sender' = sender
               /\ sender_link' = sender_link
          /\ last'.ret = "True" =>
               Len(sender'.cache) - Len(sender.cache) = FragmentsNeeded(last'.arg)
      ]_vars

\* C5 (pool partition): the outstanding sequence ids (the keys of Sender.cache)
\* and the free pool (Sender.ids) are disjoint, and together they are exactly
\* 0..PoolSize-1.
C5_PoolPartition ==
    /\ Keys(sender.cache) \cap sender.ids = { }
    /\ Keys(sender.cache) \cup sender.ids = 0..(PoolSize - 1)
    /\ Cardinality(Keys(sender.cache)) = Len(sender.cache)

\* C5's case: ids are outstanding, and an acknowledgment has put one back into
\* the pool after the set's finger had moved past it.
C5_Witness ==
    /\ last.op = "Sender.on_msg"
    /\ last.changed
    /\ sender.cache # << >>
    /\ UnpackAck(last.arg) \in sender.ids
    /\ UnpackAck(last.arg) < sender.finger

\* C6 (ack idempotence): an acknowledgment whose id is not outstanding leaves
\* the pool, the outstanding table and the RTT estimate as they were and sends
\* no packet; and giving the sender the same acknowledgment again, right after
\* it was applied, changes nothing.
C6_AckIdempotence ==
    [][ (last'.op = "Sender.on_msg" /\ last'.exc = "") =>
          /\ UnpackAck(last'.arg) \notin Keys(sender.cache) =>
               /\ sender' = sender
               /\ last'.sent = << >>
               /\ sender_link' = sender_link
          /\ SenderOnMsg(sender', last'.arg).sender = sender'
          /\ SenderOnMsg(sender', last'.arg).sent = << >>
      ]_vars

\* C6's case: on a link that corrupts nothing, the sender was given an
\* acknowledgment of an id that was not outstanding any more: the second copy
\* of an acknowledgment (the fragment was sent again before the first came).
C6_Witness ==
    /\ ~net.corruption
    /\ last.op = "Sender.on_msg"
    /\ ~last.changed
    /\ UnpackAck(last.arg) \in 0..(PoolSize - 1)
    /\ sender.rtt # InitialRtt

\* C7 (no silent corruption): a payload reaches Application.on_data, at once or
\* later from the reorder buffer, only if the CRC-32 of the decoded payload
\* equalled the checksum field of the packet it came in: a packet whose
\* checksum does not match is neither delivered nor buffered, on_msg delivers
\* and buffers nothing but the payload of a packet whose checksum matches, and
\* on_timer_tick delivers nothing but a buffered payload.
C7_NoSilentCorruption ==
    [][ /\ (last'.op = "Receiver.on_msg" /\ last'.exc = "" /\ ~CrcOk(last'.arg)) =>
               /\ app'.received = app.received
               /\ last'.on_data = << >>
               /\ receiver'.cache = receiver.cache
        /\ (last'.op = "Receiver.on_msg" /\ last'.exc = "" /\ CrcOk(last'.arg)) =>
               LET f == UnpackFragment(last'.arg)
               IN  /\ \A k \in 1..Len(last'.on_data) : last'.on_data[k].data = f.data
                   /\ \A n \in DOMAIN receiver'.cache :
                          \/ n \in DOMAIN receiver.cache /\ receiver'.cache[n] = receiver.cache[n]
                          \/ n = f.number /\ receiver'.cache[n] = f.data
        /\ last'.op = "Receiver.on_timer_tick" =>
               /\ \A k \in 1..Len(last'.on_data) :
                      /\ last'.on_data[k].number \in DOMAIN receiver.cache
                      /\ last'.on_data[k].data = receiver.cache[last'.on_data[k].number]
               /\ \A n \in DOMAIN receiver'.cache :
                      n \in DOMAIN receiver.cache /\ receiver'.cache[n] = receiver.cache[n]
        /\ last'.op \notin { "Receiver.on_msg", "Receiver.on_timer_tick" } =>
               app'.received = app.received /\ receiver'.cache = receiver.cache
        /\ app'.received = Receive(app.received, last'.on_data)
      ]_vars

\* C7's case: the receiver was given a packet whose checksum does not match its
\* payload, while a payload is waiting in its reorder buffer.
C7_Witness ==
    /\ last.op = "Receiver.on_msg"
    /\ last.exc = ""
    /\ ~CrcOk(last.arg)
    /\ DOMAIN receiver.cache # { }

\* C8 (corruption tolerance): over a link that may flip one bit of any packet it
\* carries, the bytes the application received are at every moment a prefix of
\* the written data.
C8_CorruptionTolerance == net.corruption => IsPrefix(app.received, Written)

\* C9 (bounded response on a perfect link): with a zero-latency link that never
\* loses, reorders or corrupts, and the driver order application, sender,
\* receiver, link, one write of one 1-byte message gives the application exactly
\* that byte, once and nothing else, within 10 ticks of the write.
OneByteCase == net = ReliableNetwork /\ app.test_data = Join(OneByte)

C9_OneByteWithinTenTicks ==
    OneByteCase =>
        /\ app.received \in { << >>, app.test_data }
        /\ app.time <= 10
        /\ pc = "done" => (outcome = "OK" /\ app.received = app.test_data)

\* C9's case: the run of the one-byte test case has ended.
C9_Witness == OneByteCase /\ pc = "done" /\ app.received = << 102 >>

\* C10 (malformed input): a packet shorter than the 12-byte header given to
\* Receiver.on_msg is rejected locally: nothing delivered, no acknowledgment,
\* nothing buffered, the cursor unchanged, and no exception escapes.
C10_MalformedRejected ==
    (last.op = "Receiver.on_msg" /\ Len(last.arg) < HeaderSize) =>
        /\ last.on_data = << >>
        /\ last.sent = << >>
        /\ ~last.changed
        /\ last.exc = ""
        /\ outcome = "running"

\* C11 (retransmission timer): each Sender.on_timer_tick adds 1 to the age of
\* every outstanding record, sends again, unchanged, every record whose age
\* then exceeds 12 and sets that record's age back to 0: after a tick no
\* outstanding record has an age above 12.
C11_RetransmitResetsAge ==
    [][ last'.op = "Sender.on_timer_tick" =>
          /\ Len(sender'.cache) = Len(sender.cache)
          /\ \A k \in 1..Len(sender.cache) :
                 /\ sender'.cache[k].number = sender.cache[k].number
                 /\ sender'.cache[k].message = sender.cache[k].message
                 /\ sender'.cache[k].age =
                        IF sender.cache[k].age + 1 > RetransmitAge
                        THEN 0 ELSE sender.cache[k].age + 1
          /\ last'.sent =
                 LET due == SelectSeq(sender.cache,
                                      LAMBDA e : e.age + 1 > RetransmitAge)
                 IN  [ k \in 1..Len(due) |-> due[k].message ]
          /\ \A k \in 1..Len(sender'.cache) : sender'.cache[k].age <= RetransmitAge
      ]_vars

\* C12 (unconditional ack): for every packet given to Receiver.on_msg whose
\* checksum matches, the receiver hands the link exactly one acknowledgment,
\* which carries the sequence id of that packet, whether the fragment is next
\* in line, ahead of the cursor, a duplicate or already delivered; for a packet
\* whose checksum does not match it hands the link nothing.
C12_UnconditionalAck ==
    (last.op = "Receiver.on_msg" /\ last.exc = "") =>
        IF CrcOk(last.arg)
        THEN /\ Len(last.sent) = 1
             /\ Len(last.sent[1]) = 4
             /\ U32(last.sent[1]) = UnpackFragment(last.arg).number
        ELSE last.sent = << >>

\* C12's case: the receiver was given, a second time, a fragment with a
\* matching checksum that it had already passed to the application (its id is
\* behind the cursor), and acknowledged it again.
C12_Witness ==
    /\ last.op = "Receiver.on_msg"
    /\ last.exc = ""
    /\ CrcOk(last.arg)
    /\ UnpackFragment(last.arg).number < receiver.current
    /\ last.sent # << >>

\* C13 (receive step): a fragment with a matching checksum whose sequence id
\* equals the cursor is delivered within that call of Receiver.on_msg, the
\* cursor advances, and the buffered entries that have become contiguous are
\* delivered too; a fragment whose id differs from the cursor is not delivered
\* in that call and is stored in the reorder buffer under its id.  The choice
\* depends on the id and the cursor only, not on the fragment_count field.
C13_ReceiveStep ==
    [][ (last'.op = "Receiver.on_msg" /\ last'.exc = "" /\ CrcOk(last'.arg)) =>
          LET f == UnpackFragment(last'.arg)
          IN  IF f.number = receiver.current
              THEN /\ last'.on_data # << >>
                   /\ last'.on_data[1].data = f.data
                   /\ receiver'.current > receiver.current
                   /\ receiver'.current \notin DOMAIN receiver'.cache
              ELSE /\ last'.on_data = << >>
                   /\ f.number \in DOMAIN receiver'.cache
                   /\ receiver'.cache[f.number] = f.data
      ]_vars

\* C14 (tick drain): one call of Receiver.on_timer_tick delivers, in ascending
\* id order, every buffered entry of the longest run of consecutive ids that
\* starts at the cursor, removes them from the buffer and moves the cursor past
\* them: after the call the buffer does not hold the cursor's id.
C14_TickDrain ==
    [][ last'.op = "Receiver.on_timer_tick" =>
          /\ receiver'.current \notin DOMAIN receiver'.cache
          /\ Len(last'.on_data) = receiver'.current - receiver.current
          /\ \A k \in 1..Len(last'.on_data) :
                 /\ last'.on_data[k].number = receiver.current + k - 1
                 /\ last'.on_data[k].data = receiver.cache[receiver.current + k - 1]
          /\ DOMAIN receiver'.cache =
                 DOMAIN receiver.cache \ (receiver.current..(receiver'.current - 1))
      ]_vars

\* C15 (fragmentation): a Sender.write(data) that is accepted hands the link
\* exactly max(1, ceil(len(data) / (mtu - 12))) fragments, each with a payload
\* of at most mtu - 12 bytes, whose payloads in sending order make up data, each
\* with a distinct sequence id taken from the pool and an outstanding record of
\* age 0; a write of empty data sends one fragment with an empty payload.
C15_Fragmentation ==
    [][ (last'.op = "Sender.write" /\ last'.ret = "True") =>
          LET sent == last'.sent
              payloads == [ k \in 1..Len(sent) |-> UnpackFragment(sent[k]).data ]
              numbers == { UnpackFragment(sent[k]).number : k \in 1..Len(sent) }
          IN  /\ Len(sent) = IF FragmentsNeeded(last'.arg) > 1
                             THEN FragmentsNeeded(last'.arg) ELSE 1
              /\ \A k \in 1..Len(sent) : Len(payloads[k]) <= net.mtu - HeaderSize
              /\ Join(payloads) = last'.arg
              /\ Cardinality(numbers) = Len(sent)
              /\ numbers \subseteq sender.ids
              /\ numbers \cap sender'.ids = { }
              /\ \A k \in 1..Len(sent) :
                     LET n == UnpackFragment(sent[k]).number
                     IN  /\ n \in Keys(sender'.cache)
                         /\ DictGet(sender'.cache, n).message = sent[k]
                         /\ DictGet(sender'.cache, n).age = 0
      ]_vars

\* C16 (fragment count field): in every fragment a Sender.write call produces,
\* the fragment_count field is the number of fragments that call sent, for
\* every length of data, a multiple of mtu - 12 included.
C16_FragmentCountField ==
    [][ (last'.op = "Sender.write" /\ last'.exc = "") =>
          \A k \in 1..Len(last'.sent) :
              UnpackFragment(last'.sent[k]).total_length = Len(last'.sent)
      ]_vars


\* C17 (id assignment order): the fragments the sender creates carry the ids
\* the receiver's cursor runs through: the k-th fragment ever created (from 0,
\* in write order, within a write in offset order) carries id k, the value of a
\* cursor that starts at 0 and advances by one per fragment consumed, whatever
\* ids were released and taken again in between.
C17_IdsInConsumptionOrder ==
    \A k \in 1..Len(created) : UnpackFragment(created[k]).number = k - 1

\* C18 (retransmission liveness): a fragment that stays outstanding while ticks
\* continue is handed to the link again and again, the same bytes each time.
\* Every Sender.on_timer_tick that finds a record of age 12 or more sends its
\* message and keeps the record as it is, and nothing makes a record younger,
\* so from its 13th tick on the fragment is sent on every tick; and a fragment
\* that is outstanding and has not been sent again yet is in the end sent again
\* or acknowledged, unless the run ends before (by OK, by Data corruption or by
\* an exception; the timeouts of the lossy and corrupting cases are above 13).
Resending(n) ==
    /\ last.op = "Sender.on_timer_tick"
    /\ n \in Keys(sender.cache)
    /\ \E k \in 1..Len(last.sent) : last.sent[k] = DictGet(sender.cache, n).message

C18_RetransmissionLiveness ==
    /\ [][ /\ last'.op = "Sender.on_timer_tick" =>
                 \A k \in 1..Len(sender.cache) :
                     sender.cache[k].age >= RetransmitAge =>
                         /\ \E j \in 1..Len(last'.sent) :
                                last'.sent[j] = sender.cache[k].message
                         /\ sender'.cache[k].number = sender.cache[k].number
                         /\ sender'.cache[k].message = sender.cache[k].message
           /\ \A n \in Keys(sender.cache) \cap Keys(sender'.cache) :
                 /\ DictGet(sender'.cache, n).age >= DictGet(sender.cache, n).age
                 /\ DictGet(sender'.cache, n).message = DictGet(sender.cache, n).message
         ]_vars
    /\ \A n \in 0..(PoolSize - 1) :
           (n \in Keys(sender.cache) /\ DictGet(sender.cache, n).age <= RetransmitAge) ~>
               \/ n \notin Keys(sender.cache)
               \/ Resending(n)
               \/ outcome \notin { "running", "Timeout" }

\* C18's case: a fragment whose packet or acknowledgment was lost has just
\* been sent again for the second tick in a row.
C18_Witness ==
    /\ net.packet_loss
    /\ \E n \in Keys(sender.cache) :
           /\ Resending(n)
           /\ DictGet(sender.cache, n).age > RetransmitAge + 1

\* C19 (retire only what was received): Sender.on_msg removes an outstanding
\* record and frees its id only if the receiver has accepted the fragment of
\* that record; an acknowledgment of an earlier fragment that carried the same
\* id does not retire a fragment the receiver has not yet been given.
C19_RetireOnlyReceived ==
    [][ last'.op = "Sender.on_msg" =>
          \A k \in 1..Len(sender.cache) :
              sender.cache[k].number \notin Keys(sender'.cache) =>
                  sender.cache[k].message \in accepted
      ]_vars

\* C20 (at-most-once delivery): when a fragment the receiver has accepted
\* before reaches Receiver.on_msg again, nothing is passed to
\* Application.on_data in that call, and if the cursor has passed the
\* fragment's id, the copy is not kept in the reorder buffer.
C20_AtMostOnce ==
    [][ (last'.op = "Receiver.on_msg" /\ last'.exc = "" /\ last'.arg \in accepted) =>
          /\ last'.on_data = << >>
          /\ UnpackFragment(last'.arg).number < receiver.current =>
                 UnpackFragment(last'.arg).number \notin DOMAIN receiver'.cache
      ]_vars

=============================================================================
